---- MODULE Spec2Model ----
(***************************************************************************)
(* Session management of the creep server: the Express middleware          *)
(* routeAssociateAndRefresh and routeAuthenticateForMutation (session.js), *)
(* the refreshSub callback the server configures (server.js) and the       *)
(* in-memory tracker registry (member.model.js).                           *)
(*                                                                         *)
(* One request is followed through the pipeline.  Every callback that the  *)
(* code hands to an asynchronous operation (the promise chain of           *)
(* refreshSub, the callback of jsonWebToken.sign) is one action;           *)
(* jsonWebToken.verify with a string secret calls back synchronously and   *)
(* is part of the action that calls it.                                    *)
(***************************************************************************)
EXTENDS Integers, Sequences, FiniteSets, TLC

VARIABLES
  trackerToMember,  \* member.model.js: Map tracker/handle -> member (0: no entry)
  members,          \* the Member objects created so far: [handle, trackers]
  req,              \* the request as received: headers, cookies, secure, method
  session,          \* req.session
  reqMember,        \* req.member (0: not attached)
  resCookies,       \* res.cookie calls of the response, in order
  nextCalls,        \* arguments of the calls of next by routeAssociateAndRefresh
  guardCalls,       \* arguments of the calls of next by routeAuthenticateForMutation
  pc,               \* pending asynchronous operation of routeAssociateAndRefresh
  pend,             \* what the pending callback closes over
  trace,            \* verify / lookup / sign / cookie / next events, in order
  now,              \* Date.now(), milliseconds
  ticks,            \* clock advances so far
  registryOps,      \* registry operations issued by other requests so far
  promise           \* the promise of promiseAuthenticateForMutation

vars == <<trackerToMember, members, req, session, reqMember, resCookies,
          nextCalls, guardCalls, pc, pend, trace, now, ticks, registryOps, promise>>

(***************************************************************************)
(* Bounds of the model.                                                    *)
(***************************************************************************)
MaxTicks == 1
MaxRegistryOps == 1

(***************************************************************************)
(* JavaScript values.                                                      *)
(***************************************************************************)
Undefined == "undefined"

\* http-errors: httpErrors(status, message)
httpErrors(status, message) == [name |-> "HttpError", status |-> status, message |-> message]

\* errors of jsonwebtoken carry a name and a message and no status property
\* (status 0 stands for the missing property)
JwtError(name, message) == [name |-> name, status |-> 0, message |-> message]

\* next() / done() called without an error
NoError == [name |-> "none", status |-> 0, message |-> ""]

\* cookieNames
cookieNames == [refresh |-> "refresh.jwt", session |-> "session.jwt"]

\* the options the server passes to routeAssociateAndRefresh.  TLC integers
\* are 32 bit: refreshMaxAge is 24 days here where the server configures 365;
\* the order sessionEarlyRefresh < sessionMaxAge < refreshMaxAge is kept.
options ==
  [type |-> "object",
   iss |-> "ROOT_URL",
   secret |-> "SESSION_SECRET",
   refreshMaxAge |-> 24 * 24 * 60 * 60 * 1000,
   sessionMaxAge |-> 5 * 60 * 1000,
   sessionEarlyRefresh |-> 1 * 60 * 1000]

\* Math.floor(ms / 1000)
FloorSeconds(ms) == ms \div 1000

(***************************************************************************)
(* Tokens.  A jwt is the signed claims together with the key that signed   *)
(* them; scope is a string or an array of strings.                         *)
(***************************************************************************)
ScopeString(s) == [isArray |-> FALSE, items |-> <<s>>]
ScopeArray(items) == [isArray |-> TRUE, items |-> items]

NoDecoded == [defined |-> FALSE]
NoJwt == [kind |-> "absent"]
GarbageJwt == [kind |-> "garbage"]

Claims(jti, iss, sub, scope, iat, exp) ==
  [jti |-> jti, iss |-> iss, sub |-> sub, scope |-> scope, iat |-> iat, exp |-> exp]

Jwt(claims, key) == [kind |-> "jwt", claims |-> claims, key |-> key]

\* _.get(decoded, 'sub')
GetSub(decoded) == IF decoded = NoDecoded THEN Undefined ELSE decoded.sub

\* jsonWebToken.sign(payload, secret, { expiresIn }): iat and exp in whole seconds
jwtSign(jti, iss, sub, scope, secret, expiresIn, t) ==
  Jwt(Claims(jti, iss, sub, scope, FloorSeconds(t), FloorSeconds(t) + expiresIn), secret)

\* a verify that does not look at exp
jwtVerify_NoExpiry(jwt, secret, issuer, t) ==
  IF jwt.kind = "absent"
    THEN [err |-> JwtError("JsonWebTokenError", "jwt must be provided"), decoded |-> NoDecoded]
  ELSE IF jwt.kind = "garbage"
    THEN [err |-> JwtError("JsonWebTokenError", "jwt malformed"), decoded |-> NoDecoded]
  ELSE IF jwt.key # secret
    THEN [err |-> JwtError("JsonWebTokenError", "invalid signature"), decoded |-> NoDecoded]
  ELSE IF jwt.claims.iss # issuer
    THEN [err |-> JwtError("JsonWebTokenError", "jwt issuer invalid"), decoded |-> NoDecoded]
  ELSE [err |-> NoError, decoded |-> jwt.claims]

\* jsonWebToken.verify(jwt, secret, { issuer }) -> (err, decoded)
jwtVerify(jwt, secret, issuer, t) ==
  IF jwt.kind = "absent"
    THEN [err |-> JwtError("JsonWebTokenError", "jwt must be provided"), decoded |-> NoDecoded]
  ELSE IF jwt.kind = "garbage"
    THEN [err |-> JwtError("JsonWebTokenError", "jwt malformed"), decoded |-> NoDecoded]
  ELSE IF jwt.key # secret
    THEN [err |-> JwtError("JsonWebTokenError", "invalid signature"), decoded |-> NoDecoded]
  ELSE IF FloorSeconds(t) >= jwt.claims.exp
    THEN [err |-> JwtError("TokenExpiredError", "jwt expired"), decoded |-> NoDecoded]
  ELSE IF jwt.claims.iss # issuer
    THEN [err |-> JwtError("JsonWebTokenError", "jwt issuer invalid"), decoded |-> NoDecoded]
  ELSE [err |-> NoError, decoded |-> jwt.claims]

\* jsonWebToken.decode(jwt)
jwtDecode(jwt) == IF jwt.kind = "jwt" THEN jwt.claims ELSE NoDecoded

(***************************************************************************)
(* session.js: the helpers.                                                *)
(***************************************************************************)

\* /^Bearer$/i.test(scheme)
BearerSchemeTest(scheme) == scheme \in {"Bearer", "bearer", "BEARER"}

\* authenticateHeaderIfPresent: the arguments it passes to done, and whether
\* jsonWebToken.verify was called.  req.headers.authorization.split(' ') is
\* [scheme, jwt, ...rest]; rest is the number of further parts.
authenticateHeaderIfPresent(r, opts, t) ==
  LET h == r.headers.authorization IN
  IF ~h.present
    THEN [err |-> NoError, decoded |-> NoDecoded, verified |-> FALSE]
  ELSE IF h.rest > 0
    THEN [err |-> httpErrors(401, "credentials bad format"), decoded |-> NoDecoded,
          verified |-> FALSE]
  ELSE IF ~BearerSchemeTest(h.scheme)
    THEN [err |-> httpErrors(401, "credentials bad scheme"), decoded |-> NoDecoded,
          verified |-> FALSE]
  ELSE LET v == jwtVerify(h.jwt, opts.secret, opts.iss, t) IN
       [err |-> v.err, decoded |-> v.decoded, verified |-> TRUE]

\* authenticateCookie: as above, for the cookie called name
authenticateCookie(r, name, opts, t) ==
  IF r.cookies[name].kind = "absent"
    THEN [err |-> NoError, decoded |-> NoDecoded, verified |-> FALSE]
  ELSE LET v == jwtVerify(r.cookies[name], opts.secret, opts.iss, t) IN
       [err |-> v.err, decoded |-> v.decoded, verified |-> TRUE]

\* newRefreshCookie: the token it asks jsonWebToken.sign for (jti: uuidV4())
newRefreshCookieSign(sub, opts, jti, t) ==
  jwtSign(jti, opts.iss, sub, ScopeString("refresh"), opts.secret,
          FloorSeconds(opts.refreshMaxAge), t)

\* newRefreshCookie: the res.cookie call of its sign callback
newRefreshCookieWrite(r, jwt, opts) ==
  [name |-> cookieNames.refresh, value |-> jwt, httpOnly |-> TRUE,
   secure |-> r.secure, hasMaxAge |-> TRUE, maxAge |-> opts.refreshMaxAge]

\* newSessionCookie: the token it asks jsonWebToken.sign for
newSessionCookieSign(sub, opts, jti, t) ==
  jwtSign(jti, opts.iss, sub, ScopeString("session"), opts.secret,
          FloorSeconds(opts.sessionMaxAge), t)

\* a session cookie that scripts cannot read
newSessionCookieWrite_HttpOnly(r, jwt) ==
  [name |-> cookieNames.session, value |-> jwt, httpOnly |-> TRUE,
   secure |-> r.secure, hasMaxAge |-> FALSE, maxAge |-> 0]

\* newSessionCookie: the res.cookie call of its sign callback
newSessionCookieWrite(r, jwt) ==
  [name |-> cookieNames.session, value |-> jwt, httpOnly |-> FALSE,
   secure |-> r.secure, hasMaxAge |-> FALSE, maxAge |-> 0]

\* a number passed where an options object is expected
JsNumber(n) == [type |-> "number", value |-> n]

\* almostExpired that takes a margin it cannot read for an elapsed one
almostExpired_NaNExpires(decoded, opts, t) ==
  IF opts.type = "object"
    THEN FloorSeconds(t + opts.sessionEarlyRefresh) >= decoded.exp
    ELSE TRUE

\* almostExpired(decoded, options): options.sessionEarlyRefresh is undefined
\* when options is a number, Date.now() + undefined is NaN, and NaN >= exp
\* is false.
almostExpired(decoded, opts, t) ==
  IF opts.type = "object"
    THEN FloorSeconds(t + opts.sessionEarlyRefresh) >= decoded.exp
    ELSE FALSE

\* promoteDecodedToSession: sub, and the permissions found in the scope
promoteDecodedToSession(decoded) ==
  LET scopeArray == decoded.scope.items
      has(permission) == \E i \in 1..Len(scopeArray) : scopeArray[i] = permission
  IN [sub |-> decoded.sub, sensitive |-> has("sensitive"), moderate |-> has("moderate")]

\* _.extend(req.session, promoteDecodedToSession(decoded), { decoded }):
\* a permission absent from the promoted object leaves the session's as it is
ExtendSession(sess, promoted, decoded) ==
  [sess EXCEPT !.sub = promoted.sub,
               !.sensitive = @ \/ promoted.sensitive,
               !.moderate = @ \/ promoted.moderate,
               !.decoded = decoded]

(***************************************************************************)
(* member.model.js: the registry.  A registry value is the pair            *)
(* [map, members]; a member is named by its position in members.           *)
(***************************************************************************)

\* the strings that occur as trackers and handles
Strings == {"A", "B", "hA", "hB", "N1", "N2"}
Keys == Strings \cup {Undefined}

\* Member.generateTracker(): (Math.random() + 1).toString(36).substr(2, 5) is
\* any short string; nothing makes it differ from a string already in use
generateTracker == {"A", "B", "N1", "N2"}

\* new Member(handle, tracker)
Member(handle, tracker) ==
  [handle |-> handle, trackers |-> IF tracker # Undefined THEN <<tracker>> ELSE <<>>]

\* an insert that registers the member under its handle only
insert_HandleOnly(reg, tracker, handle) ==
  LET m == Len(reg.members) + 1 IN
  [map |-> [k \in Keys |-> IF k = handle THEN m ELSE reg.map[k]],
   members |-> Append(reg.members, Member(handle, tracker))]

\* Member.insert(tracker, handle), handle already chosen: the registry after it
insert(reg, tracker, handle) ==
  LET m == Len(reg.members) + 1 IN
  [map |-> [k \in Keys |-> IF k \in {handle, tracker} THEN m ELSE reg.map[k]],
   members |-> Append(reg.members, Member(handle, tracker))]

\* Member.findByTracker(tracker): trackerToMember.get(tracker)
findByTracker(map, tracker) == map[tracker]

\* Member.blackListTracker(tracker): trackerToMember.delete(tracker)
blackListTrackerMap(map, tracker) == [map EXCEPT ![tracker] = 0]

\* a claimTracker that maps the tracker without listing it
claimTrackerReg_NoPush(reg, m, tracker) ==
  [map |-> [reg.map EXCEPT ![tracker] = m],
   members |-> reg.members]

\* member.claimTracker(tracker)
claimTrackerReg(reg, m, tracker) ==
  [map |-> [reg.map EXCEPT ![tracker] = m],
   members |-> [reg.members EXCEPT ![m].trackers = Append(@, tracker)]]

\* server.seed.js: members inserted at start-up
SeedRegistry ==
  insert(insert([map |-> [k \in Keys |-> 0], members |-> <<>>], "A", "hA"), "B", "hB")

(***************************************************************************)
(* The state of the request in flight, as one record, so that the          *)
(* synchronous parts of the middleware compose.                            *)
(***************************************************************************)
NoSession ==
  [exists |-> FALSE, sub |-> Undefined, sensitive |-> FALSE, moderate |-> FALSE,
   mutation |-> FALSE, decoded |-> NoDecoded]

\* {}
EmptySession == [NoSession EXCEPT !.exists = TRUE]

\* a promise that nothing has settled
NoPromise == [state |-> "pending", value |-> Undefined]

NoPend ==
  [via |-> "", decoded |-> NoDecoded, prevSub |-> Undefined, member |-> 0,
   validSub |-> Undefined, cont |-> "", sub |-> Undefined, jwt |-> NoJwt]

Ev(op, slot, ok, sub) == [op |-> op, slot |-> slot, ok |-> ok, sub |-> sub]

ReqState ==
  [session |-> session, resCookies |-> resCookies, nextCalls |-> nextCalls,
   trace |-> trace, pc |-> pc, pend |-> pend]

Commit(s) ==
  /\ session' = s.session
  /\ resCookies' = s.resCookies
  /\ nextCalls' = s.nextCalls
  /\ trace' = s.trace
  /\ pc' = s.pc
  /\ pend' = s.pend

\* uuidV4(): a value no earlier token of this response carries
NextJti(s) == Len(SelectSeq(s.trace, LAMBDA e : e.op = "sign")) + 1

Log(s, e) == [s EXCEPT !.trace = Append(@, e)]

LogVerify(s, slot, res) ==
  IF res.verified THEN Log(s, Ev("verify", slot, res.err = NoError, GetSub(res.decoded)))
  ELSE s

\* next(err) of routeAssociateAndRefresh
next(s, err) ==
  [Log(s, Ev("next", "", err = NoError, "")) EXCEPT !.nextCalls = Append(@, err)]

\* newSessionCookie(req, res, sub, options, done) up to the call of sign
newSessionCookie(s, sub, cont, t) ==
  [Log(s, Ev("sign", "session", TRUE, sub)) EXCEPT
     !.pc = "sign",
     !.pend = [NoPend EXCEPT !.cont = cont, !.sub = sub,
                             !.jwt = newSessionCookieSign(sub, options, NextJti(s), t)]]

\* newRefreshAndSessionCookie that forgets the refresh cookie
newRefreshAndSessionCookie_SessionOnly(s, sub, t) == newSessionCookie(s, sub, "newSession", t)

\* newRefreshAndSessionCookie -> newRefreshCookie up to the call of sign
newRefreshAndSessionCookie(s, sub, t) ==
  [Log(s, Ev("sign", "refresh", TRUE, sub)) EXCEPT
     !.pc = "sign",
     !.pend = [NoPend EXCEPT !.cont = "newRefresh", !.sub = sub,
                             !.jwt = newRefreshCookieSign(sub, options, NextJti(s), t)]]

\* nextWithNewSession(validSub) up to the call of sign
nextWithNewSession(s, validSub, t) == newRefreshAndSessionCookie(s, validSub, t)

\* nextWithExistingSession(decoded), lines 264-273: the callback of
\* authenticateCookie(refresh) when the session token is almost expired.
\* After next(err) the code falls through to newSessionCookie.
refreshForExpiring(s, t) ==
  LET res == authenticateCookie(req, cookieNames.refresh, options, t)
      s1 == LogVerify(s, "refresh", res)
      s2 == IF res.err # NoError \/ s1.session.sub # GetSub(res.decoded)
              THEN next([s1 EXCEPT !.session = EmptySession],
                        IF res.err # NoError THEN res.err
                        ELSE httpErrors(401, "credentials mismatch"))
              ELSE s1
  IN newSessionCookie(s2, s2.session.sub, "renewSession", t)

\* the callback that keeps a session cookie without comparing its sub
refreshForRefreshToken_NoSubCheck(s, t) ==
  LET res == authenticateCookie(req, cookieNames.session, options, t)
      s1 == LogVerify(s, "session", res)
  IN IF /\ res.err = NoError
        /\ res.decoded # NoDecoded
        /\ ~almostExpired(res.decoded, JsNumber(options.sessionEarlyRefresh), t)
       THEN next(s1, NoError)
       ELSE newSessionCookie(s1, s1.session.sub, "renewSession", t)

\* the callback that renews only a session cookie that failed to verify
refreshForRefreshToken_KeepMissing(s, t) ==
  LET res == authenticateCookie(req, cookieNames.session, options, t)
      s1 == LogVerify(s, "session", res)
  IN IF res.err = NoError
       THEN next(s1, NoError)
       ELSE newSessionCookie(s1, s1.session.sub, "renewSession", t)

\* the callback that renews the session cookie whatever it finds
refreshForRefreshToken_AlwaysRenew(s, t) ==
  LET res == authenticateCookie(req, cookieNames.session, options, t)
      s1 == LogVerify(s, "session", res)
  IN newSessionCookie(s1, s1.session.sub, "renewSession", t)

\* the callback without the return in front of next()
refreshForRefreshToken_MissingReturn(s, t) ==
  LET res == authenticateCookie(req, cookieNames.session, options, t)
      s1 == LogVerify(s, "session", res)
      s2 == IF /\ res.err = NoError
               /\ res.decoded # NoDecoded
               /\ res.decoded.sub = s1.session.sub
               /\ ~almostExpired(res.decoded, JsNumber(options.sessionEarlyRefresh), t)
              THEN next(s1, NoError)
              ELSE s1
  IN newSessionCookie(s2, s2.session.sub, "renewSession", t)

\* nextWithExistingSession(decoded), lines 277-288: the callback of
\* authenticateCookie(session) when the refresh token drives the session
refreshForRefreshToken(s, t) ==
  LET res == authenticateCookie(req, cookieNames.session, options, t)
      s1 == LogVerify(s, "session", res)
  IN IF /\ res.err = NoError
        /\ res.decoded # NoDecoded
        /\ res.decoded.sub = s1.session.sub
        /\ ~almostExpired(res.decoded, JsNumber(options.sessionEarlyRefresh), t)
       THEN next(s1, NoError)
       ELSE newSessionCookie(s1, s1.session.sub, "renewSession", t)

\* a nextWithExistingSession whose first branch forgets to call next
nextWithExistingSession_NoNext(s, decoded, t) ==
  LET s1 == [s EXCEPT !.session =
               ExtendSession(@, promoteDecodedToSession(decoded), decoded)]
  IN IF req.cookies[cookieNames.refresh].kind = "absent"
       THEN s1
     ELSE IF s1.session.decoded.scope # ScopeString("refresh")
       THEN IF ~almostExpired(s1.session.decoded, JsNumber(options.sessionEarlyRefresh), t)
              THEN next(s1, NoError)
              ELSE refreshForExpiring(s1, t)
     ELSE refreshForRefreshToken(s1, t)

\* a nextWithExistingSession that renews a session credential's cookie
\* without looking at the refresh cookie's token
nextWithExistingSession_RenewsUnchecked(s, decoded, t) ==
  LET s1 == [s EXCEPT !.session =
               ExtendSession(@, promoteDecodedToSession(decoded), decoded)]
  IN IF req.cookies[cookieNames.refresh].kind = "absent"
       THEN next(s1, NoError)
     ELSE IF s1.session.decoded.scope # ScopeString("refresh")
       THEN newSessionCookie(s1, s1.session.sub, "renewSession", t)
     ELSE refreshForRefreshToken(s1, t)

\* nextWithExistingSession(decoded)
nextWithExistingSession(s, decoded, t) ==
  LET s1 == [s EXCEPT !.session =
               ExtendSession(@, promoteDecodedToSession(decoded), decoded)]
  IN IF req.cookies[cookieNames.refresh].kind = "absent"
       THEN next(s1, NoError)
     ELSE IF s1.session.decoded.scope # ScopeString("refresh")
       THEN IF ~almostExpired(s1.session.decoded, JsNumber(options.sessionEarlyRefresh), t)
              THEN next(s1, NoError)
              ELSE refreshForExpiring(s1, t)
     ELSE refreshForRefreshToken(s1, t)

\* a refreshSub that answers from the registry as it was at start-up
refreshSub_StartUpCopy(s, via, decoded, prevSub) ==
  [Log(s, Ev("lookup", via, findByTracker(SeedRegistry.map, prevSub) # 0, prevSub)) EXCEPT
     !.pc = "refreshSub.member",
     !.pend = [NoPend EXCEPT !.via = via, !.decoded = decoded, !.prevSub = prevSub,
                             !.member = findByTracker(SeedRegistry.map, prevSub)]]

\* options.refreshSub(req, prevSub) up to its first promise:
\* models.Member.findByTracker(prevSub)
refreshSub(s, via, decoded, prevSub) ==
  [Log(s, Ev("lookup", via, findByTracker(trackerToMember, prevSub) # 0, prevSub)) EXCEPT
     !.pc = "refreshSub.member",
     !.pend = [NoPend EXCEPT !.via = via, !.decoded = decoded, !.prevSub = prevSub,
                             !.member = findByTracker(trackerToMember, prevSub)]]

\* doRouteAssociateAndRefresh, lines 323-340: the callback of
\* authenticateCookie(refresh) when there is no header
associateByCookie(s, t) ==
  LET res == authenticateCookie(req, cookieNames.refresh, options, t)
      s1 == LogVerify(s, "refresh", res)
  IN IF res.err # NoError THEN next(s1, res.err)
     ELSE refreshSub(s1, "cookie", res.decoded, GetSub(res.decoded))

\* an entry that falls back to the refresh cookie when the header fails
associateEntry_FallBackToCookie(s, t) ==
  LET s0 == [s EXCEPT !.session = IF @.exists THEN @ ELSE EmptySession] IN
  IF s0.session.sub # Undefined THEN next(s0, NoError)
  ELSE LET res == authenticateHeaderIfPresent(req, options, t)
           s1 == LogVerify(s0, "header", res)
       IN IF res.err = NoError /\ res.decoded # NoDecoded
            THEN refreshSub(s1, "header", res.decoded, res.decoded.sub)
          ELSE associateByCookie(s1, t)

\* an entry that authenticates the request again though the context has a sub
associateEntry_NoShortCircuit(s, t) ==
  LET s0 == [s EXCEPT !.session = IF @.exists THEN @ ELSE EmptySession]
      res == authenticateHeaderIfPresent(req, options, t)
      s1 == LogVerify(s0, "header", res)
  IN IF res.err # NoError THEN next(s1, res.err)
     ELSE IF res.decoded # NoDecoded
       THEN refreshSub(s1, "header", res.decoded, res.decoded.sub)
     ELSE associateByCookie(s1, t)

\* doRouteAssociateAndRefresh, lines 298-342, up to the first promise
associateEntry(s, t) ==
  LET s0 == [s EXCEPT !.session = IF @.exists THEN @ ELSE EmptySession] IN
  IF s0.session.sub # Undefined THEN next(s0, NoError)
  ELSE LET res == authenticateHeaderIfPresent(req, options, t)
           s1 == LogVerify(s0, "header", res)
       IN IF res.err # NoError THEN next(s1, res.err)
          ELSE IF res.decoded # NoDecoded
            THEN refreshSub(s1, "header", res.decoded, res.decoded.sub)
          ELSE associateByCookie(s1, t)

\* the .then(validSub => ...) that marks the cookie path resistant to CSRF too
associateValidSub_MutationByCookie(s, validSub, t) ==
  LET d == s.pend.decoded
      s1 == [Log(s, Ev("validSub", s.pend.via, validSub = GetSub(d), validSub)) EXCEPT
               !.pc = "none", !.pend = NoPend]
  IN IF validSub = GetSub(d) /\ d # NoDecoded
       THEN nextWithExistingSession([s1 EXCEPT !.session.mutation = TRUE], d, t)
       ELSE nextWithNewSession(s1, validSub, t)

\* the .then(validSub => ...) that keeps the presented credential whatever
\* refreshSub returned
associateValidSub_IgnoreRevocation(s, validSub, t) ==
  LET d == s.pend.decoded
      s1 == [Log(s, Ev("validSub", s.pend.via, validSub = GetSub(d), validSub)) EXCEPT
               !.pc = "none", !.pend = NoPend]
  IN IF d = NoDecoded
       THEN nextWithNewSession(s1, validSub, t)
     ELSE IF s.pend.via = "header"
       THEN nextWithExistingSession([s1 EXCEPT !.session.mutation = TRUE], d, t)
     ELSE nextWithExistingSession(s1, d, t)

\* the .then(validSub => ...) that marks the context as soon as the header
\* credential has verified, before it compares validSub
associateValidSub_MutationBeforeLookup(s, validSub, t) ==
  LET d == s.pend.decoded
      s1 == [Log(s, Ev("validSub", s.pend.via, validSub = GetSub(d), validSub)) EXCEPT
               !.pc = "none", !.pend = NoPend,
               !.session.mutation = @ \/ s.pend.via = "header"]
  IN IF validSub = GetSub(d)
       THEN IF d = NoDecoded
              THEN next(s1, JwtError("TypeError", "Cannot read property 'sub' of undefined"))
            ELSE nextWithExistingSession(s1, d, t)
       ELSE nextWithNewSession(s1, validSub, t)

\* the .then(validSub => ...) of doRouteAssociateAndRefresh, lines 310-319 and
\* 330-338.  promoteDecodedToSession(undefined) throws, and the .catch passes
\* the TypeError to next.
associateValidSub(s, validSub, t) ==
  LET d == s.pend.decoded
      s1 == [Log(s, Ev("validSub", s.pend.via, validSub = GetSub(d), validSub)) EXCEPT
               !.pc = "none", !.pend = NoPend]
  IN IF validSub = GetSub(d)
       THEN IF d = NoDecoded
              THEN next(s1, JwtError("TypeError", "Cannot read property 'sub' of undefined"))
            ELSE IF s.pend.via = "header"
              THEN nextWithExistingSession([s1 EXCEPT !.session.mutation = TRUE], d, t)
            ELSE nextWithExistingSession(s1, d, t)
       ELSE nextWithNewSession(s1, validSub, t)

\* sign callbacks that mint the session cookie a second time after a pair
signDone_SessionTwice(s, t) ==
  LET p == s.pend
      s0 == [s EXCEPT !.pc = "none", !.pend = NoPend]
  IN IF p.cont = "newRefresh"
       THEN LET s1 == [Log(s0, Ev("cookie", "refresh", TRUE, p.sub)) EXCEPT
                         !.resCookies = Append(@, newRefreshCookieWrite(req, p.jwt, options))]
            IN newSessionCookie(s1, p.sub, "newSession", t)
     ELSE LET s1 == [Log(s0, Ev("cookie", "session", TRUE, p.sub)) EXCEPT
                       !.resCookies = Append(@, newSessionCookieWrite(req, p.jwt))]
          IN IF p.cont = "newSession"
               THEN newSessionCookie(s1, p.sub, "renewSession", t)
               ELSE next(s1, NoError)

\* sign callbacks that write the session cookie of a pair before its refresh
\* cookie
signDone_SessionFirst(s, t) ==
  LET p == s.pend
      s0 == [s EXCEPT !.pc = "none", !.pend = NoPend]
  IN IF p.cont = "newRefresh"
       THEN LET s1 == [Log(s0, Ev("cookie", "session", TRUE, p.sub)) EXCEPT
                         !.resCookies =
                           Append(@, newSessionCookieWrite(
                                       req, newSessionCookieSign(p.sub, options, NextJti(s0), t)))]
            IN [s1 EXCEPT !.pc = "sign", !.pend = [p EXCEPT !.cont = "lateRefresh"]]
     ELSE IF p.cont = "lateRefresh"
       THEN LET jwt == newSessionCookieSign(p.sub, options, NextJti(s0), t)
                s1 == [Log(s0, Ev("cookie", "refresh", TRUE, p.sub)) EXCEPT
                         !.resCookies = Append(@, newRefreshCookieWrite(req, p.jwt, options))]
            IN next([s1 EXCEPT !.session =
                       ExtendSession([@ EXCEPT !.decoded = jwtDecode(jwt)],
                                     promoteDecodedToSession(jwtDecode(jwt)),
                                     jwtDecode(jwt))],
                    NoError)
     ELSE LET s1 == [Log(s0, Ev("cookie", "session", TRUE, p.sub)) EXCEPT
                       !.resCookies = Append(@, newSessionCookieWrite(req, p.jwt))]
          IN next(s1, NoError)

\* the callbacks of jsonWebToken.sign in newRefreshCookie and newSessionCookie,
\* and the done they call
signDone(s, t) ==
  LET p == s.pend
      s0 == [s EXCEPT !.pc = "none", !.pend = NoPend]
  IN IF p.cont = "newRefresh"
       THEN LET s1 == [Log(s0, Ev("cookie", "refresh", TRUE, p.sub)) EXCEPT
                         !.resCookies = Append(@, newRefreshCookieWrite(req, p.jwt, options))]
            IN newSessionCookie(s1, p.sub, "newSession", t)
     ELSE LET s1 == [Log(s0, Ev("cookie", "session", TRUE, p.sub)) EXCEPT
                       !.resCookies = Append(@, newSessionCookieWrite(req, p.jwt))]
          IN IF p.cont = "newSession"
               THEN next([s1 EXCEPT !.session =
                            ExtendSession([@ EXCEPT !.decoded = jwtDecode(p.jwt)],
                                          promoteDecodedToSession(jwtDecode(p.jwt)),
                                          jwtDecode(p.jwt))],
                         NoError)
               ELSE next(s1, NoError)

\* the reasons with which a lookup is rejected and a sign call fails
LookupError == JwtError("Error", "lookup failed")
SignError == JwtError("Error", "sign failed")

\* a .catch that asks refreshSub again
lookupRejected_Retry(s, reason) ==
  refreshSub(Log(s, Ev("reject", s.pend.via, FALSE, s.pend.prevSub)),
             s.pend.via, s.pend.decoded, s.pend.prevSub)

\* .catch(reason => next(reason)) of doRouteAssociateAndRefresh, lines 320
\* and 339
lookupRejected(s, reason) ==
  next([Log(s, Ev("reject", s.pend.via, FALSE, s.pend.prevSub)) EXCEPT
          !.pc = "none", !.pend = NoPend],
       reason)

\* sign callbacks that promote the subject although sign failed
signFailed_KeepsSub(s, err) ==
  LET p == s.pend
      slot == IF p.cont = "newRefresh" THEN "refresh" ELSE "session"
  IN next([Log(s, Ev("signError", slot, FALSE, p.sub)) EXCEPT
             !.pc = "none", !.pend = NoPend, !.session.sub = p.sub],
          err)

\* the callbacks of jsonWebToken.sign when it fails: if (err) return done(err),
\* and every done passes the error to next (lines 140-141, 165-166, 182-183,
\* 237-238, 272, 287)
signFailed(s, err) ==
  LET p == s.pend
      slot == IF p.cont = "newRefresh" THEN "refresh" ELSE "session"
  IN next([Log(s, Ev("signError", slot, FALSE, p.sub)) EXCEPT
             !.pc = "none", !.pend = NoPend],
          err)

\* the options the server passes to routeAuthenticateForMutation
guardOptions == [type |-> "object", iss |-> options.iss, secret |-> options.secret]

\* a guard that is content with an established sub when there is no header
authenticateForMutation_CookieSuffices(sess, r, t) ==
  LET s0 == IF sess.exists THEN sess ELSE EmptySession
      res == authenticateHeaderIfPresent(r, guardOptions, t)
  IN IF res.err # NoError
       THEN [session |-> s0, err |-> res.err, check |-> res]
     ELSE IF res.decoded = NoDecoded
       THEN [session |-> s0,
             err |-> IF s0.sub # Undefined THEN NoError
                     ELSE httpErrors(401, "credentials required"),
             check |-> res]
     ELSE IF s0.sub # res.decoded.sub
       THEN [session |-> s0, err |-> httpErrors(401, "credentials mismatch"), check |-> res]
     ELSE [session |-> [s0 EXCEPT !.mutation = TRUE], err |-> NoError, check |-> res]

\* a guard that does not compare the header's sub with the session's
authenticateForMutation_NoSubCheck(sess, r, t) ==
  LET s0 == IF sess.exists THEN sess ELSE EmptySession
      res == authenticateHeaderIfPresent(r, guardOptions, t)
      skipped == [err |-> NoError, decoded |-> NoDecoded, verified |-> FALSE]
  IN IF s0.mutation
       THEN [session |-> s0, err |-> NoError, check |-> skipped]
     ELSE IF res.err # NoError \/ res.decoded = NoDecoded
       THEN [session |-> s0,
             err |-> IF res.err # NoError THEN res.err
                     ELSE httpErrors(401, "credentials required"),
             check |-> res]
     ELSE [session |-> [s0 EXCEPT !.mutation = TRUE], err |-> NoError, check |-> res]

\* a guard that checks the header before it looks at session.mutation
authenticateForMutation_HeaderFirst(sess, r, t) ==
  LET s0 == IF sess.exists THEN sess ELSE EmptySession
      res == authenticateHeaderIfPresent(r, guardOptions, t)
  IN IF res.err # NoError
       THEN [session |-> s0, err |-> res.err, check |-> res]
     ELSE IF s0.mutation
       THEN [session |-> s0, err |-> NoError, check |-> res]
     ELSE IF res.decoded = NoDecoded
       THEN [session |-> s0, err |-> httpErrors(401, "credentials required"), check |-> res]
     ELSE IF s0.sub # res.decoded.sub
       THEN [session |-> s0, err |-> httpErrors(401, "credentials mismatch"), check |-> res]
     ELSE [session |-> [s0 EXCEPT !.mutation = TRUE], err |-> NoError, check |-> res]

\* doRouteAuthenticateForMutation: the session it leaves, the argument of its
\* call of next, and the result of the header check it made (if any)
authenticateForMutation(sess, r, t) ==
  LET s0 == IF sess.exists THEN sess ELSE EmptySession
      res == authenticateHeaderIfPresent(r, guardOptions, t)
      skipped == [err |-> NoError, decoded |-> NoDecoded, verified |-> FALSE]
  IN IF s0.mutation
       THEN [session |-> s0, err |-> NoError, check |-> skipped]
     ELSE IF res.err # NoError \/ res.decoded = NoDecoded
       THEN [session |-> s0,
             err |-> IF res.err # NoError THEN res.err
                     ELSE httpErrors(401, "credentials required"),
             check |-> res]
     ELSE IF s0.sub # res.decoded.sub
       THEN [session |-> s0, err |-> httpErrors(401, "credentials mismatch"), check |-> res]
     ELSE [session |-> [s0 EXCEPT !.mutation = TRUE], err |-> NoError, check |-> res]

\* a promiseAuthenticateForMutation that also asks the registry for the sub
promiseAuthenticateForMutation_ChecksRegistry(opts, t) ==
  LET v == jwtVerify(opts.jwtSession, opts.secret, opts.iss, t) IN
  IF v.err # NoError
    THEN [state |-> "rejected", value |-> v.err]
  ELSE IF findByTracker(trackerToMember, v.decoded.sub) = 0
    THEN [state |-> "rejected", value |-> httpErrors(401, "credentials revoked")]
  ELSE [state |-> "resolved", value |-> v.decoded.sub]

\* promiseAuthenticateForMutation(options): how its promise settles
promiseAuthenticateForMutation(opts, t) ==
  LET v == jwtVerify(opts.jwtSession, opts.secret, opts.iss, t) IN
  IF v.err # NoError
    THEN [state |-> "rejected", value |-> v.err]
    ELSE [state |-> "resolved", value |-> v.decoded.sub]

(***************************************************************************)
(* The requests considered.  Times are relative to the arrival of the      *)
(* request; a presented token is fresh, close to its expiry or expired.    *)
(***************************************************************************)
StartTime == 1000 * 1000
StartSeconds == FloorSeconds(StartTime)
TickMs == 45 * 1000

ExpFresh == StartSeconds + 300
ExpNearly == StartSeconds + 30
ExpExpired == StartSeconds - 10

SessionScope == ScopeString("session")
RefreshScope == ScopeString("refresh")
SensitiveScope == ScopeArray(<<"session", "sensitive">>)

\* a token the server issued earlier
Issued(sub, scope, exp) == Jwt(Claims(0, options.iss, sub, scope, exp - 300, exp), options.secret)

ForgedJwt == Jwt(Claims(0, options.iss, "A", SessionScope, ExpFresh - 300, ExpFresh), "guess")
ForeignJwt == Jwt(Claims(0, "OTHER_URL", "A", SessionScope, ExpFresh - 300, ExpFresh), options.secret)

InvalidJwts == {Issued("A", SessionScope, ExpExpired), ForgedJwt, ForeignJwt, GarbageJwt}

HeaderJwts ==
  {Issued("A", SessionScope, ExpFresh), Issued("A", SessionScope, ExpNearly),
   Issued("A", SensitiveScope, ExpFresh), Issued("A", RefreshScope, ExpFresh),
   Issued("B", SessionScope, ExpFresh)} \cup InvalidJwts

NoHeader == [present |-> FALSE, scheme |-> "", jwt |-> NoJwt, rest |-> 0]
Header(scheme, jwt, rest) == [present |-> TRUE, scheme |-> scheme, jwt |-> jwt, rest |-> rest]

Headers ==
  {NoHeader} \cup {Header("Bearer", j, 0) : j \in HeaderJwts}
  \cup {Header("bearer", Issued("A", SessionScope, ExpFresh), 0),
        Header("Basic", Issued("A", SessionScope, ExpFresh), 0),
        Header("Bearer", Issued("A", SessionScope, ExpFresh), 1),
        Header("Bearer", NoJwt, 0)}

RefreshCookies ==
  {NoJwt, Issued("A", RefreshScope, ExpFresh), Issued("B", RefreshScope, ExpFresh),
   Issued("A", SessionScope, ExpFresh), Issued("A", RefreshScope, ExpExpired), ForgedJwt}

SessionCookies ==
  {NoJwt, Issued("A", SessionScope, ExpFresh), Issued("A", SessionScope, ExpNearly),
   Issued("B", SessionScope, ExpFresh), Issued("A", SessionScope, ExpExpired)}

Requests ==
  {[headers |-> [authorization |-> h],
    cookies |-> (cookieNames.refresh :> rc) @@ (cookieNames.session :> sc),
    secure |-> sec, method |-> m] :
     h \in Headers, rc \in RefreshCookies, sc \in SessionCookies,
     sec \in BOOLEAN, m \in {"GET", "POST"}}

(***************************************************************************)
(* The actions.                                                            *)
(***************************************************************************)
Init ==
  /\ trackerToMember = SeedRegistry.map
  /\ members = SeedRegistry.members
  /\ req \in Requests
  /\ session = NoSession
  /\ reqMember = 0
  /\ resCookies = <<>>
  /\ nextCalls = <<>>
  /\ guardCalls = <<>>
  /\ pc = "start"
  /\ pend = NoPend
  /\ trace = <<>>
  /\ now = StartTime
  /\ ticks = 0
  /\ registryOps = 0
  /\ promise = NoPromise

\* app.use(session.routeAssociateAndRefresh(...)) reaches the request
doRouteAssociateAndRefresh ==
  /\ pc = "start"
  /\ Commit(associateEntry([ReqState EXCEPT !.pc = "none"], now))
  /\ UNCHANGED <<trackerToMember, members, req, reqMember, guardCalls, now, ticks,
                 registryOps, promise>>

\* refreshSub: .then(member => ...), server.js lines 120-132
refreshSubMember ==
  /\ pc = "refreshSub.member"
  /\ pc' = "refreshSub.values"
  /\ IF pend.member # 0
       THEN /\ pend' = [pend EXCEPT !.validSub = pend.prevSub]
            /\ UNCHANGED <<trackerToMember, members>>
       ELSE \E sub \in generateTracker, handle \in generateTracker :
              LET reg == insert([map |-> trackerToMember, members |-> members], sub, handle)
              IN /\ trackerToMember' = reg.map
                 /\ members' = reg.members
                 /\ pend' = [pend EXCEPT !.validSub = sub, !.member = Len(reg.members)]
  /\ UNCHANGED <<req, session, reqMember, resCookies, nextCalls, guardCalls, trace, now,
                 ticks, registryOps, promise>>

\* refreshSub: .then(values => ...), server.js lines 133-136, and the
\* .then(validSub => ...) of doRouteAssociateAndRefresh
refreshSubValues ==
  /\ pc = "refreshSub.values"
  /\ reqMember' = pend.member
  /\ Commit(associateValidSub(ReqState, pend.validSub, now))
  /\ UNCHANGED <<trackerToMember, members, req, guardCalls, now, ticks, registryOps, promise>>

\* jsonWebToken.sign calls back
signCallback ==
  /\ pc = "sign"
  /\ Commit(signDone(ReqState, now))
  /\ UNCHANGED <<trackerToMember, members, req, reqMember, guardCalls, now, ticks,
                 registryOps, promise>>

\* the routes between the two middleware answer every GET; another request
\* reaches routeAuthenticateForMutation once the first has called next()
GuardReached ==
  /\ Len(nextCalls) > 0
  /\ nextCalls[1] = NoError
  /\ req.method # "GET"

\* app.use(session.routeAuthenticateForMutation(...)) reaches the request
doRouteAuthenticateForMutation ==
  /\ GuardReached
  /\ guardCalls = <<>>
  /\ LET r == authenticateForMutation(session, req, now) IN
       /\ session' = r.session
       /\ guardCalls' = <<r.err>>
       /\ trace' = IF r.check.verified
                     THEN trace \o <<Ev("verify", "guard", r.check.err = NoError,
                                        GetSub(r.check.decoded)),
                                     Ev("next", "guard", r.err = NoError, "")>>
                     ELSE Append(trace, Ev("next", "guard", r.err = NoError, ""))
  /\ UNCHANGED <<trackerToMember, members, req, reqMember, resCookies, nextCalls, pc,
                 pend, now, ticks, registryOps, promise>>

\* the request has left both middleware
Finished ==
  /\ pc = "none"
  /\ Len(nextCalls) > 0
  /\ GuardReached => guardCalls # <<>>

\* Member.blackListTracker(tracker), called on behalf of another request
blackListTracker ==
  /\ ~Finished
  /\ registryOps < MaxRegistryOps
  /\ \E tracker \in {"A", "B"} :
       trackerToMember' = blackListTrackerMap(trackerToMember, tracker)
  /\ registryOps' = registryOps + 1
  /\ UNCHANGED <<members, req, session, reqMember, resCookies, nextCalls, guardCalls,
                 pc, pend, trace, now, ticks, promise>>

\* member.claimTracker(tracker), called on behalf of another request
claimTracker ==
  /\ ~Finished
  /\ registryOps < MaxRegistryOps
  /\ \E m \in 1..Len(members), tracker \in {"A", "B"} :
       LET reg == claimTrackerReg([map |-> trackerToMember, members |-> members], m, tracker)
       IN /\ trackerToMember' = reg.map
          /\ members' = reg.members
  /\ registryOps' = registryOps + 1
  /\ UNCHANGED <<req, session, reqMember, resCookies, nextCalls, guardCalls,
                 pc, pend, trace, now, ticks, promise>>

\* time passes
Tick ==
  /\ ~Finished
  /\ ticks < MaxTicks
  /\ now' = now + TickMs
  /\ ticks' = ticks + 1
  /\ UNCHANGED <<trackerToMember, members, req, session, reqMember, resCookies,
                 nextCalls, guardCalls, pc, pend, trace, registryOps, promise>>

Next ==
  \/ doRouteAssociateAndRefresh
  \/ refreshSubMember
  \/ refreshSubValues
  \/ signCallback
  \/ doRouteAuthenticateForMutation
  \/ blackListTracker
  \/ claimTracker
  \/ Tick

Spec == Init /\ [][Next]_vars

(***************************************************************************)
(* routeAuthenticateForMutation on its own: the guard applied to a request *)
(* whose Session Context an earlier middleware has left in any state.      *)
(***************************************************************************)
GuardSessions ==
  {NoSession, EmptySession,
   [EmptySession EXCEPT !.sub = "A"],
   [EmptySession EXCEPT !.sub = "B"],
   [EmptySession EXCEPT !.mutation = TRUE],
   [EmptySession EXCEPT !.sub = "A", !.mutation = TRUE],
   [EmptySession EXCEPT !.sub = "A", !.sensitive = TRUE,
                        !.decoded = jwtDecode(Issued("A", SensitiveScope, ExpFresh))],
   [EmptySession EXCEPT !.sub = "B", !.mutation = TRUE, !.moderate = TRUE]}

InitGuard ==
  /\ trackerToMember = SeedRegistry.map
  /\ members = SeedRegistry.members
  /\ req \in {r \in Requests : r.method = "POST" /\ r.cookies[cookieNames.session] = NoJwt}
  /\ session \in GuardSessions
  /\ reqMember = 0
  /\ resCookies = <<>>
  /\ nextCalls = <<NoError>>
  /\ guardCalls = <<>>
  /\ pc = "none"
  /\ pend = NoPend
  /\ trace = <<>>
  /\ now = StartTime
  /\ ticks = 0
  /\ registryOps = 0
  /\ promise = NoPromise

NextGuard == doRouteAuthenticateForMutation

SpecGuard == InitGuard /\ [][NextGuard]_vars

(***************************************************************************)
(* The tokens on their own: a token is signed as newRefreshCookie and      *)
(* newSessionCookie sign theirs, comes back in a cookie and is verified by *)
(* authenticateCookie, with any secret and issuer, sooner or later.        *)
(***************************************************************************)
MaxJwtTicks == 2
MaxVerifies == 2

JwtTickMs == 150 * 1000

SignInputs ==
  {[sub |-> sub, scope |-> scope, secret |-> secret, iss |-> iss, expiresIn |-> expiresIn] :
     sub \in {"A", "B"},
     scope \in {SessionScope, RefreshScope, SensitiveScope},
     secret \in {options.secret, "guess"},
     iss \in {options.iss, "OTHER_URL"},
     expiresIn \in {FloorSeconds(options.sessionMaxAge), FloorSeconds(options.refreshMaxAge)}}

InitJwt ==
  /\ trackerToMember = SeedRegistry.map
  /\ members = SeedRegistry.members
  /\ req \in SignInputs
  /\ session = NoSession
  /\ reqMember = 0
  /\ resCookies = <<>>
  /\ nextCalls = <<>>
  /\ guardCalls = <<>>
  /\ pc = "jwt.sign"
  /\ pend = NoPend
  /\ trace = <<>>
  /\ now = StartTime
  /\ ticks = 0
  /\ registryOps = 0
  /\ promise = NoPromise

\* jsonWebToken.sign calls back with the token
jwtSignCallback ==
  /\ pc = "jwt.sign"
  /\ pc' = "jwt.signed"
  /\ pend' = [NoPend EXCEPT !.sub = req.sub,
                            !.jwt = jwtSign(1, req.iss, req.sub, req.scope, req.secret,
                                            req.expiresIn, now)]
  /\ UNCHANGED <<trackerToMember, members, req, session, reqMember, resCookies, nextCalls,
                 guardCalls, trace, now, ticks, registryOps, promise>>

\* a later request presents the token in a cookie: authenticateCookie's
\* callback receives (err, decoded)
jwtVerifyCallback ==
  /\ pc = "jwt.signed"
  /\ Len(trace) < MaxVerifies
  /\ \E secret \in {options.secret, "guess"}, iss \in {options.iss, "OTHER_URL"} :
       LET r == [cookies |-> (cookieNames.refresh :> pend.jwt) @@ (cookieNames.session :> NoJwt)]
           res == authenticateCookie(r, cookieNames.refresh,
                                     [type |-> "object", iss |-> iss, secret |-> secret], now)
       IN trace' = Append(trace, [op |-> "verify", secret |-> secret, issuer |-> iss,
                                  t |-> now, err |-> res.err, decoded |-> res.decoded])
  /\ UNCHANGED <<trackerToMember, members, req, session, reqMember, resCookies, nextCalls,
                 guardCalls, pc, pend, now, ticks, registryOps, promise>>

\* time passes, half a session lifetime at a time
JwtTick ==
  /\ pc = "jwt.signed"
  /\ ticks < MaxJwtTicks
  /\ now' = now + JwtTickMs
  /\ ticks' = ticks + 1
  /\ UNCHANGED <<trackerToMember, members, req, session, reqMember, resCookies,
                 nextCalls, guardCalls, pc, pend, trace, registryOps, promise>>

NextJwt ==
  \/ jwtSignCallback
  \/ jwtVerifyCallback
  \/ JwtTick

SpecJwt == InitJwt /\ [][NextJwt]_vars

(***************************************************************************)
(* promiseAuthenticateForMutation: a webSocket message carries a session   *)
(* token; meanwhile other requests change the registry and time passes.    *)
(***************************************************************************)
SocketMessages == {[jwtSession |-> j] : j \in HeaderJwts \cup {NoJwt}}

InitSocket ==
  /\ trackerToMember = SeedRegistry.map
  /\ members = SeedRegistry.members
  /\ req \in SocketMessages
  /\ session = NoSession
  /\ reqMember = 0
  /\ resCookies = <<>>
  /\ nextCalls = <<>>
  /\ guardCalls = <<>>
  /\ pc = "socket"
  /\ pend = NoPend
  /\ trace = <<>>
  /\ now = StartTime
  /\ ticks = 0
  /\ registryOps = 0
  /\ promise = NoPromise

\* promiseAuthenticateForMutation({ iss, secret, jwtSession }) settles
doPromiseAuthenticateForMutation ==
  /\ pc = "socket"
  /\ pc' = "settled"
  /\ promise' = promiseAuthenticateForMutation(
                  [type |-> "object", iss |-> options.iss, secret |-> options.secret,
                   jwtSession |-> req.jwtSession], now)
  /\ UNCHANGED <<trackerToMember, members, req, session, reqMember, resCookies, nextCalls,
                 guardCalls, pend, trace, now, ticks, registryOps>>

NextSocket ==
  \/ doPromiseAuthenticateForMutation
  \/ blackListTracker
  \/ claimTracker
  \/ Tick

SpecSocket == InitSocket /\ [][NextSocket]_vars

(***************************************************************************)
(* routeAssociateAndRefresh reached by a request whose Session Context an  *)
(* earlier middleware of the pipeline has already given a sub.             *)
(***************************************************************************)
InitRerun ==
  /\ trackerToMember = SeedRegistry.map
  /\ members = SeedRegistry.members
  /\ req \in Requests
  /\ session \in {s \in GuardSessions : s.sub # Undefined}
  /\ reqMember = 0
  /\ resCookies = <<>>
  /\ nextCalls = <<>>
  /\ guardCalls = <<>>
  /\ pc = "start"
  /\ pend = NoPend
  /\ trace = <<>>
  /\ now = StartTime
  /\ ticks = 0
  /\ registryOps = 0
  /\ promise = NoPromise

NextRerun ==
  \/ doRouteAssociateAndRefresh
  \/ blackListTracker
  \/ Tick

SpecRerun == InitRerun /\ [][NextRerun]_vars

(***************************************************************************)
(* routeAssociateAndRefresh with operations that fail: options.refreshSub  *)
(* is any lookup, whose promise may be rejected, and jsonWebToken.sign may *)
(* call back with an error.  A failure ends the request, so a request sees *)
(* one at most.                                                            *)
(***************************************************************************)
FaultRequests == {r \in Requests : ~r.secure}

NoFaultYet == \A i \in 1..Len(trace) : trace[i].op \notin {"reject", "signError"}

InitFaults ==
  /\ trackerToMember = SeedRegistry.map
  /\ members = SeedRegistry.members
  /\ req \in FaultRequests
  /\ session = NoSession
  /\ reqMember = 0
  /\ resCookies = <<>>
  /\ nextCalls = <<>>
  /\ guardCalls = <<>>
  /\ pc = "start"
  /\ pend = NoPend
  /\ trace = <<>>
  /\ now = StartTime
  /\ ticks = 0
  /\ registryOps = 0
  /\ promise = NoPromise

\* the promise of options.refreshSub is rejected
refreshSubRejects ==
  /\ pc \in {"refreshSub.member", "refreshSub.values"}
  /\ NoFaultYet
  /\ Commit(lookupRejected(ReqState, LookupError))
  /\ UNCHANGED <<trackerToMember, members, req, reqMember, guardCalls, now, ticks,
                 registryOps, promise>>

\* jsonWebToken.sign calls back with an error
signFails ==
  /\ pc = "sign"
  /\ NoFaultYet
  /\ Commit(signFailed(ReqState, SignError))
  /\ UNCHANGED <<trackerToMember, members, req, reqMember, guardCalls, now, ticks,
                 registryOps, promise>>

NextFaults ==
  \/ doRouteAssociateAndRefresh
  \/ refreshSubMember
  \/ refreshSubValues
  \/ refreshSubRejects
  \/ signCallback
  \/ signFails
  \/ doRouteAuthenticateForMutation
  \/ blackListTracker
  \/ claimTracker
  \/ Tick

SpecFaults == InitFaults /\ [][NextFaults]_vars

(***************************************************************************)
(* Progress.  The request is handed to the middleware, and every call of   *)
(* jsonWebToken.sign calls back (verify calls back within the step that    *)
(* calls it), with the token or with an error; nothing is assumed of the   *)
(* lookup.                                                                 *)
(***************************************************************************)
NextLive ==
  \/ doRouteAssociateAndRefresh
  \/ refreshSubMember
  \/ refreshSubValues
  \/ refreshSubRejects
  \/ signCallback
  \/ signFails
  \/ blackListTracker

SpecLive ==
  /\ InitFaults
  /\ [][NextLive]_vars
  /\ WF_vars(doRouteAssociateAndRefresh)
  /\ WF_vars(signCallback)

(***************************************************************************)
(* The registry on its own: any sequence of Member.insert,                 *)
(* member.claimTracker and Member.blackListTracker after the seeds.        *)
(***************************************************************************)
MaxRegistrySteps == 3

InitRegistry ==
  /\ trackerToMember = SeedRegistry.map
  /\ members = SeedRegistry.members
  /\ req = [headers |-> [authorization |-> NoHeader]]
  /\ session = NoSession
  /\ reqMember = 0
  /\ resCookies = <<>>
  /\ nextCalls = <<>>
  /\ guardCalls = <<>>
  /\ pc = "registry"
  /\ pend = NoPend
  /\ trace = <<>>
  /\ now = StartTime
  /\ ticks = 0
  /\ registryOps = 0
  /\ promise = NoPromise

\* Member.insert(tracker): the handle is generated
MemberInsert ==
  /\ pc = "registry"
  /\ Len(trace) < MaxRegistrySteps
  /\ \E tracker \in generateTracker, handle \in generateTracker :
       LET reg == insert([map |-> trackerToMember, members |-> members], tracker, handle)
       IN /\ trackerToMember' = reg.map
          /\ members' = reg.members
          /\ trace' = Append(trace, [op |-> "insert", member |-> Len(reg.members),
                                     tracker |-> tracker])
  /\ UNCHANGED <<req, session, reqMember, resCookies, nextCalls, guardCalls, pc, pend,
                 now, ticks, registryOps, promise>>

\* member.claimTracker(tracker)
MemberClaimTracker ==
  /\ pc = "registry"
  /\ Len(trace) < MaxRegistrySteps
  /\ \E m \in 1..Len(members), tracker \in generateTracker :
       LET reg == claimTrackerReg([map |-> trackerToMember, members |-> members], m, tracker)
       IN /\ trackerToMember' = reg.map
          /\ members' = reg.members
          /\ trace' = Append(trace, [op |-> "claimTracker", member |-> m,
                                     tracker |-> tracker])
  /\ UNCHANGED <<req, session, reqMember, resCookies, nextCalls, guardCalls, pc, pend,
                 now, ticks, registryOps, promise>>

\* Member.blackListTracker(tracker)
MemberBlackListTracker ==
  /\ pc = "registry"
  /\ Len(trace) < MaxRegistrySteps
  /\ \E tracker \in Strings :
       /\ trackerToMember' = blackListTrackerMap(trackerToMember, tracker)
       /\ trace' = Append(trace, [op |-> "blackListTracker", member |-> 0,
                                  tracker |-> tracker])
  /\ UNCHANGED <<members, req, session, reqMember, resCookies, nextCalls, guardCalls, pc,
                 pend, now, ticks, registryOps, promise>>

NextRegistry ==
  \/ MemberInsert
  \/ MemberClaimTracker
  \/ MemberBlackListTracker

SpecRegistry == InitRegistry /\ [][NextRegistry]_vars

(***************************************************************************)
(* Properties.                                                             *)
(***************************************************************************)
TypeOK ==
  /\ pc \in {"start", "none", "refreshSub.member", "refreshSub.values", "sign"}
  /\ Len(resCookies) <= 2
  /\ Len(nextCalls) <= 1

\* routeAssociateAndRefresh has called next and has nothing pending
AssocDone == pc = "none" /\ Len(nextCalls) > 0

Authorization == req.headers.authorization
RefreshCookie == req.cookies[cookieNames.refresh]
SessionCookie == req.cookies[cookieNames.session]

\* the token is one the server signed for its issuer and has not expired
ValidJwt(jwt) ==
  /\ jwt.kind = "jwt"
  /\ jwt.key = options.secret
  /\ jwt.claims.iss = options.iss
  /\ FloorSeconds(now) < jwt.claims.exp

\* the Authorization header is "Bearer <token>" with a valid token
ValidHeader ==
  /\ Authorization.present
  /\ Authorization.rest = 0
  /\ Authorization.scheme \in {"Bearer", "bearer"}
  /\ ValidJwt(Authorization.jwt)

CookieWrites(name) == SelectSeq(resCookies, LAMBDA c : c.name = name)
Events(op) == SelectSeq(trace, LAMBDA e : e.op = op)
Occurred(e) == \E i \in 1..Len(trace) : trace[i] = e

\* the request carries no credential at all
FirstContact ==
  /\ ~Authorization.present
  /\ RefreshCookie = NoJwt
  /\ SessionCookie = NoJwt

\* C1: a request with no Authorization header, no refresh cookie and no session
\* cookie (and no Session Context yet) completes without error; one refresh
\* cookie and one session cookie are written, both for the sub that refreshSub
\* returned when called with an absent subject; the context's sub is that sub;
\* and one member, holding that sub as its tracker, has been added to the
\* registry and attached to the request.
C1_FirstContactMintsPair ==
  (AssocDone /\ FirstContact) =>
    /\ nextCalls = <<NoError>>
    /\ Len(resCookies) = 2
    /\ Len(CookieWrites(cookieNames.refresh)) = 1
    /\ Len(CookieWrites(cookieNames.session)) = 1
    /\ Len(Events("lookup")) = 1
    /\ Events("lookup")[1].sub = Undefined
    /\ Len(Events("validSub")) = 1
    /\ \A i \in 1..Len(resCookies) :
         resCookies[i].value.claims.sub = Events("validSub")[1].sub
    /\ session.sub = Events("validSub")[1].sub
    /\ session.sub # Undefined
    /\ Len(members) = Len(SeedRegistry.members) + 1
    /\ members[Len(members)].trackers[1] = session.sub
    /\ reqMember = Len(members)

C1_Witness ==
  /\ AssocDone
  /\ FirstContact
  /\ Len(resCookies) = 2
  /\ session.sub = "N1"

\* C2: the Session Context has mutation = true only if the Authorization
\* header of this request carried a token that was verified successfully
\* (server's signature and issuer, not expired when the request arrived) and
\* whose sub is the context's sub; a request without Authorization header
\* never has mutation = true.
C2_MutationNeedsHeaderProof ==
  /\ session.mutation =>
       /\ Authorization.present
       /\ Authorization.rest = 0
       /\ Authorization.scheme \in {"Bearer", "bearer"}
       /\ Authorization.jwt.kind = "jwt"
       /\ Authorization.jwt.key = options.secret
       /\ Authorization.jwt.claims.iss = options.iss
       /\ Authorization.jwt.claims.exp > StartSeconds
       /\ Authorization.jwt.claims.sub = session.sub
       /\ \E i \in 1..Len(trace) :
            /\ trace[i].op = "verify"
            /\ trace[i].slot \in {"header", "guard"}
            /\ trace[i].ok
            /\ trace[i].sub = session.sub
  /\ ~Authorization.present => ~session.mutation

C2_Witness ==
  /\ session.mutation
  /\ session.sub = "A"
  /\ guardCalls = <<NoError>>

\* routeAuthenticateForMutation runs in this step
GuardStep == guardCalls = <<>> /\ guardCalls' # <<>>

\* C3: when routeAuthenticateForMutation runs with mutation not true and
\* without Authorization header, it calls next with 401 'credentials required'
\* and mutation is still not true.
C3_NoHeaderRejected ==
  [][(GuardStep /\ ~session.mutation /\ ~Authorization.present) =>
       /\ guardCalls' = <<httpErrors(401, "credentials required")>>
       /\ ~session'.mutation]_vars

\* a request authenticated by its refresh cookie alone has been rejected
C3_Witness ==
  /\ guardCalls = <<httpErrors(401, "credentials required")>>
  /\ ~Authorization.present
  /\ ValidJwt(RefreshCookie)
  /\ session.sub = RefreshCookie.claims.sub
  /\ ~session.mutation

\* C4: when routeAuthenticateForMutation runs with mutation not true and a
\* header token that verifies: a sub other than the context's gives 401
\* 'credentials mismatch' and leaves mutation unset, the same sub sets
\* mutation and continues without error; sub, sensitive, moderate and decoded
\* of the context and the cookies of the response are unchanged.
C4_GuardComparesSub ==
  [][(GuardStep /\ ~session.mutation /\ ValidHeader) =>
       /\ IF Authorization.jwt.claims.sub # session.sub
            THEN /\ guardCalls' = <<httpErrors(401, "credentials mismatch")>>
                 /\ ~session'.mutation
            ELSE /\ guardCalls' = <<NoError>>
                 /\ session'.mutation
       /\ session'.sub = session.sub
       /\ session'.sensitive = session.sensitive
       /\ session'.moderate = session.moderate
       /\ session'.decoded = session.decoded
       /\ resCookies' = resCookies]_vars

C4_Witness ==
  /\ guardCalls = <<NoError>>
  /\ session.mutation
  /\ ValidHeader
  /\ Occurred(Ev("verify", "guard", TRUE, session.sub))

\* C5: when routeAuthenticateForMutation runs with mutation = true it calls
\* next without error, verifies nothing and leaves the context as it is,
\* whatever the Authorization header is.
C5_MutationShortCircuits ==
  [][(GuardStep /\ session.mutation) =>
       /\ guardCalls' = <<NoError>>
       /\ session' = session
       /\ trace' = Append(trace, Ev("next", "guard", TRUE, ""))
       /\ resCookies' = resCookies]_vars

\* the guard has let a request with a malformed header pass
C5_Witness ==
  /\ guardCalls = <<NoError>>
  /\ session.mutation
  /\ Authorization.present
  /\ Authorization.rest > 0

\* the token is within the early-refresh margin of its expiry
AlmostExpiredJwt(jwt) ==
  /\ ValidJwt(jwt)
  /\ FloorSeconds(now + options.sessionEarlyRefresh) >= jwt.claims.exp

\* the valid session credentials the request presents, in the session cookie
\* or in the Authorization header
SessionCredentials ==
  {j \in {SessionCookie} \cup (IF ValidHeader THEN {Authorization.jwt} ELSE {}) :
     ValidJwt(j) /\ j.claims.scope # RefreshScope}

\* the refresh cookie is a valid token of scope refresh
ValidRefreshCookie == ValidJwt(RefreshCookie) /\ RefreshCookie.claims.scope = RefreshScope

\* C6 as claimed: no request with a valid refresh cookie for one subject and a
\* valid session credential (session cookie or Authorization header) for
\* another completes successfully with the context's sub equal to the session
\* credential's.
C6_Original ==
  ~ /\ AssocDone
    /\ nextCalls = <<NoError>>
    /\ ValidRefreshCookie
    /\ \E j \in SessionCredentials :
         /\ j.claims.sub # RefreshCookie.claims.sub
         /\ session.sub = j.claims.sub

\* C6 amended: a request without Authorization header, with a valid refresh
\* cookie for one subject and a valid session cookie for another, completes
\* without error and never with the session cookie's credential: the context's
\* sub is the one refreshSub returned for the refresh cookie's subject, and
\* one new session cookie is written for it.
C6_SessionCookieNotAdopted ==
  (/\ AssocDone
   /\ ~Authorization.present
   /\ ValidRefreshCookie
   /\ ValidJwt(SessionCookie)
   /\ SessionCookie.claims.sub # RefreshCookie.claims.sub) =>
    /\ nextCalls = <<NoError>>
    /\ session.decoded # SessionCookie.claims
    /\ Len(Events("lookup")) = 1
    /\ Events("lookup")[1].sub = RefreshCookie.claims.sub
    /\ session.sub = Events("validSub")[1].sub
    /\ Len(CookieWrites(cookieNames.session)) = 1
    /\ CookieWrites(cookieNames.session)[1].value.claims.sub = session.sub

C6_Witness ==
  /\ AssocDone
  /\ ~Authorization.present
  /\ ValidRefreshCookie
  /\ ValidJwt(SessionCookie)
  /\ SessionCookie.claims.sub = "B"
  /\ session.sub = "A"
  /\ Len(resCookies) = 1

\* refreshSub found a member for the subject of the refresh cookie
RefreshCookieUnrevoked ==
  Occurred(Ev("lookup", "cookie", TRUE, RefreshCookie.claims.sub))

\* C7: a request (without Authorization header) with a valid, unrevoked
\* refresh cookie and no session cookie completes without error; exactly one
\* cookie is written, the session cookie, for the refresh cookie's sub, which
\* is also the context's sub.
C7_RefreshOnlyMintsSession ==
  (/\ AssocDone
   /\ ~Authorization.present
   /\ ValidRefreshCookie
   /\ RefreshCookieUnrevoked
   /\ SessionCookie = NoJwt) =>
    /\ nextCalls = <<NoError>>
    /\ Len(resCookies) = 1
    /\ resCookies[1].name = cookieNames.session
    /\ resCookies[1].value.claims.sub = RefreshCookie.claims.sub
    /\ session.sub = RefreshCookie.claims.sub

C7_Witness ==
  /\ AssocDone
  /\ ~Authorization.present
  /\ ValidRefreshCookie
  /\ RefreshCookieUnrevoked
  /\ SessionCookie = NoJwt
  /\ Len(resCookies) = 1

\* C8: a request (without Authorization header) with a valid session cookie
\* that is not almost expired and a valid, registered refresh cookie for the
\* same subject completes without error, writes no cookie and has that
\* subject as the context's sub.
C8_FreshSessionNoWrites ==
  (/\ AssocDone
   /\ ~Authorization.present
   /\ ValidJwt(RefreshCookie)
   /\ RefreshCookieUnrevoked
   /\ ValidJwt(SessionCookie)
   /\ ~AlmostExpiredJwt(SessionCookie)
   /\ SessionCookie.claims.sub = RefreshCookie.claims.sub) =>
    /\ nextCalls = <<NoError>>
    /\ resCookies = <<>>
    /\ Events("sign") = <<>>
    /\ session.sub = RefreshCookie.claims.sub

C8_Witness ==
  /\ AssocDone
  /\ ~Authorization.present
  /\ ValidRefreshCookie
  /\ RefreshCookieUnrevoked
  /\ ValidJwt(SessionCookie)
  /\ ~AlmostExpiredJwt(SessionCookie)
  /\ SessionCookie.claims.sub = RefreshCookie.claims.sub
  /\ Occurred(Ev("verify", "session", TRUE, session.sub))
  /\ nextCalls = <<NoError>>

\* the Session Context is cleared
ClearedSession ==
  /\ session.sub = Undefined
  /\ ~session.mutation
  /\ session.decoded = NoDecoded

\* C9 as claimed, for the session credential that drives the context (the one
\* in the Authorization header): a request with an almost-expired session
\* credential and a refresh cookie that is invalid or for another subject
\* ends with a fatal error (401 'credentials mismatch' when the refresh cookie
\* verifies), a cleared Session Context and no cookie written.
C9_Original ==
  (/\ AssocDone
   /\ RefreshCookie # NoJwt
   /\ ValidHeader
   /\ Authorization.jwt.claims.scope # RefreshScope
   /\ AlmostExpiredJwt(Authorization.jwt)
   /\ Occurred(Ev("validSub", "header", TRUE, Authorization.jwt.claims.sub))
   /\ \/ ~ValidJwt(RefreshCookie)
      \/ RefreshCookie.claims.sub # Authorization.jwt.claims.sub) =>
    /\ nextCalls[1] # NoError
    /\ ValidJwt(RefreshCookie) => nextCalls[1] = httpErrors(401, "credentials mismatch")
    /\ ClearedSession
    /\ resCookies = <<>>

UnregisteredRefreshCookie ==
  /\ ~Authorization.present
  /\ ValidJwt(RefreshCookie)
  /\ Occurred(Ev("lookup", "cookie", FALSE, RefreshCookie.claims.sub))

\* the member refreshSub inserted
NewMember == members[Len(members)]

DrivenByRemoved(T) ==
  \/ /\ Occurred(Ev("verify", "header", TRUE, T))
     /\ Occurred(Ev("lookup", "header", FALSE, T))
  \/ /\ ~Authorization.present
     /\ Occurred(Ev("verify", "refresh", TRUE, T))
     /\ Occurred(Ev("lookup", "cookie", FALSE, T))

\* C12: a request that routeAssociateAndRefresh authenticates with an
\* otherwise valid credential (Authorization header, or refresh cookie when
\* there is no header) for a tracker T removed from the registry before,
\* where the newly generated tracker differs from T, completes without error
\* with a context sub other than T, and one new refresh cookie and one new
\* session cookie are written for that replacement subject.
C12_RevokedTrackerReplaced ==
  \A T \in {"A", "B"} :
    (/\ AssocDone
     /\ DrivenByRemoved(T)
     /\ Events("validSub")[1].sub # T) =>
      /\ nextCalls = <<NoError>>
      /\ session.sub # T
      /\ session.sub = Events("validSub")[1].sub
      /\ session.sub \in generateTracker
      /\ Len(resCookies) = 2
      /\ Len(CookieWrites(cookieNames.refresh)) = 1
      /\ Len(CookieWrites(cookieNames.session)) = 1
      /\ \A i \in 1..Len(resCookies) : resCookies[i].value.claims.sub = session.sub
      /\ session.decoded = CookieWrites(cookieNames.session)[1].value.claims

\* a header credential for the removed tracker A has been replaced
C12_Witness ==
  /\ AssocDone
  /\ DrivenByRemoved("A")
  /\ ValidHeader
  /\ findByTracker(trackerToMember, "A") = 0
  /\ session.sub = "N2"
  /\ Len(resCookies) = 2

\* C13 as claimed: every error that routeAssociateAndRefresh or
\* routeAuthenticateForMutation passes to next carries status 401.
C13_Original ==
  /\ \A i \in 1..Len(nextCalls) : nextCalls[i] # NoError => nextCalls[i].status = 401
  /\ \A i \in 1..Len(guardCalls) : guardCalls[i] # NoError => guardCalls[i].status = 401

\* a step of routeAssociateAndRefresh itself: its entry, or a callback of sign
MiddlewareStep == pc \in {"start", "sign"} /\ trace' # trace

\* a step of the revocation lookup the server configures
LookupStep == pc \in {"refreshSub.member", "refreshSub.values"} /\ pc' # pc

\* C14: in every state of a request each cookie slot has been written at
\* most once; the steps of routeAssociateAndRefresh change nothing but the
\* response's cookies and the request's Session Context (and call next);
\* the registry and req.member change only inside the revocation lookup (or
\* by another request), and the request's headers and cookies never change.
C14_AtMostOneWritePerSlot ==
  /\ [](/\ Len(CookieWrites(cookieNames.refresh)) <= 1
        /\ Len(CookieWrites(cookieNames.session)) <= 1
        /\ Len(resCookies) =
             Len(CookieWrites(cookieNames.refresh)) + Len(CookieWrites(cookieNames.session)))
  /\ [][/\ MiddlewareStep =>
             UNCHANGED <<trackerToMember, members, req, reqMember, guardCalls, now>>
        /\ LookupStep => UNCHANGED <<req, guardCalls, now, resCookies>>
        /\ (trackerToMember' # trackerToMember \/ members' # members) =>
             (pc = "refreshSub.member" \/ registryOps' # registryOps)
        /\ reqMember' # reqMember => pc = "refreshSub.values"
        /\ req' = req]_vars

\* both slots have been written, once each
C14_Witness ==
  /\ AssocDone
  /\ Len(CookieWrites(cookieNames.refresh)) = 1
  /\ Len(CookieWrites(cookieNames.session)) = 1
  /\ RefreshCookie # NoJwt
  /\ SessionCookie # NoJwt

\* newRefreshAndSessionCookie has been called
PairMint == \E i \in 1..Len(trace) : trace[i].op = "sign" /\ trace[i].slot = "refresh"

\* C15: when a refresh cookie and a session cookie are minted together, in
\* every state of the request a session cookie that has been written is
\* preceded, among the writes of the response, by the refresh cookie for the
\* same subject; while the session token of the pair is being signed the
\* refresh cookie is already written.
C15_RefreshBeforeSession ==
  PairMint =>
    /\ \A i \in 1..Len(resCookies) :
         resCookies[i].name = cookieNames.session =>
           \E j \in 1..(i - 1) :
             /\ resCookies[j].name = cookieNames.refresh
             /\ resCookies[j].value.claims.sub = resCookies[i].value.claims.sub
    /\ (pc = "sign" /\ pend.cont = "newSession") =>
         /\ Len(resCookies) = 1
         /\ resCookies[1].name = cookieNames.refresh

\* the refresh cookie is written and the session token is being signed
C15_Witness ==
  /\ PairMint
  /\ pc = "sign"
  /\ pend.cont = "newSession"
  /\ Len(resCookies) = 1
  /\ resCookies[1].name = cookieNames.refresh

\* C18: every refresh cookie written is httpOnly, has maxAge = refreshMaxAge,
\* the request's secure flag and a token of scope refresh; every session
\* cookie written is not httpOnly, has no maxAge, the request's secure flag
\* and a token of scope session; no cookie of another name is written.
C18_CookieAttributes ==
  \A i \in 1..Len(resCookies) :
    LET c == resCookies[i] IN
    \/ /\ c.name = cookieNames.refresh
       /\ c.httpOnly
       /\ c.hasMaxAge
       /\ c.maxAge = options.refreshMaxAge
       /\ c.secure = req.secure
       /\ c.value.claims.scope = ScopeString("refresh")
       /\ c.value.claims.exp - c.value.claims.iat = FloorSeconds(options.refreshMaxAge)
    \/ /\ c.name = cookieNames.session
       /\ ~c.httpOnly
       /\ ~c.hasMaxAge
       /\ c.secure = req.secure
       /\ c.value.claims.scope = ScopeString("session")
       /\ c.value.claims.exp - c.value.claims.iat = FloorSeconds(options.sessionMaxAge)

C18_Witness ==
  /\ Len(resCookies) = 2
  /\ resCookies[1].name = cookieNames.refresh
  /\ resCookies[2].name = cookieNames.session
  /\ req.secure
  /\ resCookies[2].secure

\* C19: when the Authorization header carries a valid credential with sub S
\* and refreshSub returns V # S, the request completes without error, one
\* refresh cookie and one session cookie are written for V, and the context
\* has sub V, the newly minted session credential as decoded, neither
\* sensitive nor moderate set, and mutation not true.
C19_RevokedHeaderStartsAfresh ==
  \A S \in {"A", "B"} :
    (/\ AssocDone
     /\ Occurred(Ev("verify", "header", TRUE, S))
     /\ Events("validSub")[1].slot = "header"
     /\ Events("validSub")[1].sub # S) =>
      /\ nextCalls = <<NoError>>
      /\ Len(resCookies) = 2
      /\ Len(CookieWrites(cookieNames.refresh)) = 1
      /\ Len(CookieWrites(cookieNames.session)) = 1
      /\ \A i \in 1..Len(resCookies) :
           resCookies[i].value.claims.sub = Events("validSub")[1].sub
      /\ session.sub = Events("validSub")[1].sub
      /\ session.decoded = CookieWrites(cookieNames.session)[1].value.claims
      /\ ~session.sensitive
      /\ ~session.moderate
      /\ ~session.mutation

\* a header credential with the sensitive permission for a removed tracker
C19_Witness ==
  /\ AssocDone
  /\ Authorization.jwt = Issued("A", SensitiveScope, ExpFresh)
  /\ Occurred(Ev("verify", "header", TRUE, "A"))
  /\ Occurred(Ev("validSub", "header", FALSE, "N1"))
  /\ session.sub = "N1"
  /\ guardCalls = <<httpErrors(401, "credentials mismatch")>>

\* the token could not be verified when the request arrived
InvalidAtArrival(jwt) ==
  ~ /\ jwt.kind = "jwt"
    /\ jwt.key = options.secret
    /\ jwt.claims.iss = options.iss
    /\ StartSeconds < jwt.claims.exp

\* the Authorization header is malformed or its token fails verification
HeaderFails ==
  /\ Authorization.present
  /\ \/ Authorization.rest > 0
     \/ ~BearerSchemeTest(Authorization.scheme)
     \/ InvalidAtArrival(Authorization.jwt)
     \/ Occurred(Ev("verify", "header", FALSE, Undefined))

\* there is no header and the refresh cookie fails verification
RefreshCookieFails ==
  /\ ~Authorization.present
  /\ RefreshCookie # NoJwt
  /\ \/ InvalidAtArrival(RefreshCookie)
     \/ Occurred(Ev("verify", "refresh", FALSE, Undefined))

VerificationErrors == {"JsonWebTokenError", "TokenExpiredError"}

\* C20: a request whose Authorization header has extra parts, a scheme other
\* than Bearer or a token that fails verification, or that has no header and
\* a refresh cookie that fails verification, ends with that error (401
\* 'credentials bad format', 401 'credentials bad scheme', the error of
\* verify); refreshSub is not called, nothing is signed, no cookie is
\* written, no member is added and the context has no sub, whatever the
\* refresh cookie is.
C20_EarlyFailuresAreFatal ==
  (AssocDone /\ (HeaderFails \/ RefreshCookieFails)) =>
    /\ Len(nextCalls) = 1
    /\ IF Authorization.present /\ Authorization.rest > 0
         THEN nextCalls[1] = httpErrors(401, "credentials bad format")
       ELSE IF Authorization.present /\ ~BearerSchemeTest(Authorization.scheme)
         THEN nextCalls[1] = httpErrors(401, "credentials bad scheme")
       ELSE nextCalls[1].name \in VerificationErrors
    /\ Events("lookup") = <<>>
    /\ Events("sign") = <<>>
    /\ resCookies = <<>>
    /\ session.sub = Undefined
    /\ ~session.mutation
    /\ Len(members) = Len(SeedRegistry.members)
    /\ reqMember = 0
    /\ guardCalls = <<>>
    /\ Authorization.present => Events("verify") \in {<<>>, <<Ev("verify", "header", FALSE, Undefined)>>}

\* a forged header token is fatal though the refresh cookie is valid
C20_Witness ==
  /\ AssocDone
  /\ Authorization.present
  /\ Authorization.jwt = ForgedJwt
  /\ ValidRefreshCookie
  /\ nextCalls = <<JwtError("JsonWebTokenError", "invalid signature")>>
  /\ resCookies = <<>>

C17_PromiseVerifiesOnly ==
  [][(pc = "socket" /\ pc' # pc) =>
       /\ promise'.state = IF ValidJwt(req.jwtSession) THEN "resolved" ELSE "rejected"
       /\ ValidJwt(req.jwtSession) => promise'.value = req.jwtSession.claims.sub
       /\ ~ValidJwt(req.jwtSession) =>
            /\ promise'.value = jwtVerify(req.jwtSession, options.secret, options.iss, now).err
            /\ promise'.value.name \in VerificationErrors
       /\ UNCHANGED <<trackerToMember, members, resCookies, trace, session, reqMember,
                      nextCalls, guardCalls>>]_vars

\* the promise resolved with a tracker that is not in the registry
C17_Witness ==
  /\ pc = "settled"
  /\ promise.state = "resolved"
  /\ promise.value = "A"
  /\ findByTracker(trackerToMember, "A") = 0
  /\ trace = <<>>
  /\ resCookies = <<>>

\* the session cookie is a token for the refresh cookie's subject that
\* verifies and is not within the early-refresh margin of its expiry
KeepableSessionCookie ==
  /\ ValidJwt(SessionCookie)
  /\ SessionCookie.claims.sub = RefreshCookie.claims.sub
  /\ ~AlmostExpiredJwt(SessionCookie)

\* C21 as claimed: a request without Authorization header whose refresh cookie
\* is a valid, registered refresh credential completes without error; it
\* writes no cookie if the session cookie verifies, has the same sub and is
\* not almost expired, and otherwise exactly one cookie, a session cookie
\* for the refresh credential's sub.
C21_Original ==
  (/\ AssocDone
   /\ ~Authorization.present
   /\ ValidRefreshCookie
   /\ RefreshCookieUnrevoked
   /\ ticks = 0) =>
    /\ nextCalls = <<NoError>>
    /\ IF KeepableSessionCookie
         THEN resCookies = <<>>
         ELSE /\ Len(resCookies) = 1
              /\ resCookies[1].name = cookieNames.session
              /\ resCookies[1].value.claims.sub = RefreshCookie.claims.sub

\* the credential that routeAssociateAndRefresh authenticates the request with
DrivingJwt == IF Authorization.present THEN Authorization.jwt ELSE RefreshCookie

\* the context is driven by a session credential that refreshSub confirmed
SessionCredentialDrives ==
  /\ Events("validSub") # <<>>
  /\ Events("validSub")[1].ok
  /\ DrivingJwt.kind = "jwt"
  /\ DrivingJwt.claims.scope # RefreshScope

\* C22: when the context is driven by a session credential, every session
\* cookie written in the request comes after a successful verification of
\* the refresh cookie that gave the context's sub; when the refresh cookie is
\* invalid or for another subject no session cookie is written.
C22_NoSelfRenewal ==
  SessionCredentialDrives =>
    /\ \A i \in 1..Len(trace) :
         (trace[i].op = "cookie" /\ trace[i].slot = "session") =>
           \E j \in 1..(i - 1) :
             /\ trace[j] = Ev("verify", "refresh", TRUE, trace[i].sub)
             /\ trace[i].sub = DrivingJwt.claims.sub
    /\ (Authorization.present /\ (~ValidJwt(RefreshCookie)
                                  \/ RefreshCookie.claims.sub # DrivingJwt.claims.sub)) =>
         CookieWrites(cookieNames.session) = <<>>

\* a near-expired header credential and a forged refresh cookie: nothing is
\* written
C22_Witness ==
  /\ AssocDone
  /\ SessionCredentialDrives
  /\ ValidHeader
  /\ AlmostExpiredJwt(Authorization.jwt)
  /\ RefreshCookie = ForgedJwt
  /\ resCookies = <<>>

\* the tokens of the request on which the protocol may run the test
PresentedClaims ==
  {j.claims : j \in {k \in {Authorization.jwt, RefreshCookie, SessionCookie} : k.kind = "jwt"}}

\* C23 as claimed: called as the protocol calls it, almostExpired is true
\* exactly when the current time plus sessionEarlyRefresh, in whole seconds,
\* is at or past the credential's exp.
C23_Original ==
  \A decoded \in PresentedClaims :
    almostExpired(decoded, JsNumber(options.sessionEarlyRefresh), now)
      <=> (FloorSeconds(now + options.sessionEarlyRefresh) >= decoded.exp)

\* the positions of the calls of next by routeAssociateAndRefresh in the trace
NextEvents == {i \in 1..Len(trace) : trace[i].op = "next" /\ trace[i].slot = ""}

\* C27: routeAssociateAndRefresh never calls next twice and has called it
\* once when it has nothing pending; after the call it verifies nothing,
\* signs nothing, looks nothing up and writes no cookie (what follows in the
\* request is routeAuthenticateForMutation); after next(err) no cookie is
\* minted.
C27_NextExactlyOnce ==
  /\ Len(nextCalls) <= 1
  /\ Cardinality(NextEvents) = Len(nextCalls)
  /\ pc = "none" => Len(nextCalls) = 1
  /\ Len(nextCalls) = 1 => pc = "none"
  /\ \A i \in NextEvents : \A j \in (i + 1)..Len(trace) : trace[j].slot = "guard"
  /\ (Len(nextCalls) = 1 /\ nextCalls[1] # NoError) =>
       /\ resCookies = <<>>
       /\ Events("sign") = <<>>

\* a request that ended with an error
C27_Witness ==
  /\ AssocDone
  /\ nextCalls = <<httpErrors(401, "credentials bad scheme")>>
  /\ trace[Len(trace)] = Ev("next", "", FALSE, "")
  /\ SessionCookie # NoJwt
  /\ ValidRefreshCookie

\* C24: when the Session Context has a sub as routeAssociateAndRefresh
\* starts, the middleware calls next without error at once: it verifies
\* nothing, calls no lookup, signs nothing, writes no cookie and leaves the
\* context, the registry and req.member as they are.
C24_ExistingSubSkipsAll ==
  [][(pc = "start" /\ pc' # pc /\ session.sub # Undefined) =>
       /\ pc' = "none"
       /\ nextCalls' = <<NoError>>
       /\ trace' = Append(trace, Ev("next", "", TRUE, ""))
       /\ session' = session
       /\ resCookies' = resCookies
       /\ pend' = NoPend
       /\ UNCHANGED <<trackerToMember, members, reqMember, req>>]_vars

\* the middleware has passed on a request that carries a forged header token,
\* a refresh cookie for a removed tracker and a context for another subject
C24_Witness ==
  /\ AssocDone
  /\ nextCalls = <<NoError>>
  /\ session.sub = "B"
  /\ session.mutation
  /\ Authorization.jwt = ForgedJwt
  /\ RefreshCookie = Issued("A", RefreshScope, ExpFresh)
  /\ findByTracker(trackerToMember, "A") = 0
  /\ trace = <<Ev("next", "", TRUE, "")>>
  /\ resCookies = <<>>

\* the request presents no credential that routeAssociateAndRefresh looks at
NoDrivingCredential == ~Authorization.present /\ RefreshCookie = NoJwt

\* C25: in every state of a request, a cookie write and a sign call come
\* after the lookup has resolved; the lookup is called at most once, after
\* the driving credential has verified (or with no subject when there is
\* no credential) and after no failed verification; when the lookup is
\* rejected the request has ended with that rejection, nothing was signed
\* and no cookie was written.
C25_LookupBeforeMint ==
  /\ \A i \in 1..Len(trace) :
       trace[i].op \in {"cookie", "sign"} =>
         \E j \in 1..(i - 1) : trace[j].op = "validSub"
  /\ \A i \in 1..Len(trace) :
       trace[i].op = "lookup" =>
         /\ \A j \in 1..(i - 1) : trace[j].op = "verify" /\ trace[j].ok
         /\ IF NoDrivingCredential
              THEN i = 1 /\ trace[i].sub = Undefined
              ELSE /\ i = 2
                   /\ trace[1].sub = trace[i].sub
                   /\ trace[1].slot = IF Authorization.present THEN "header" ELSE "refresh"
  /\ Len(Events("lookup")) <= 1
  /\ Events("reject") # <<>> =>
       /\ AssocDone
       /\ nextCalls = <<LookupError>>
       /\ Len(Events("lookup")) = 1
       /\ Len(Events("reject")) = 1
       /\ Events("validSub") = <<>>
       /\ Events("sign") = <<>>
       /\ resCookies = <<>>
       /\ session.sub = Undefined

\* the lookup of a valid header credential was rejected
C25_Witness ==
  /\ AssocDone
  /\ ValidHeader
  /\ Occurred(Ev("reject", "header", FALSE, Authorization.jwt.claims.sub))
  /\ nextCalls = <<LookupError>>
  /\ resCookies = <<>>

\* C26: when newRefreshAndSessionCookie is under way and signing the refresh
\* token fails, the request ends with that error and no cookie is written;
\* when signing the session token then fails, the request ends with that
\* error, the refresh cookie stays written, no session cookie is written and
\* the Session Context has no sub, no decoded credential and no mutation.
C26_SignFailureOnMint ==
  PairMint =>
    /\ Occurred(Ev("signError", "refresh", FALSE, Events("validSub")[1].sub)) =>
         /\ AssocDone
         /\ nextCalls = <<SignError>>
         /\ resCookies = <<>>
         /\ ClearedSession
    /\ Occurred(Ev("signError", "session", FALSE, Events("validSub")[1].sub)) =>
         /\ AssocDone
         /\ nextCalls = <<SignError>>
         /\ Len(resCookies) = 1
         /\ resCookies[1].name = cookieNames.refresh
         /\ resCookies[1].value.claims.sub = Events("validSub")[1].sub
         /\ CookieWrites(cookieNames.session) = <<>>
         /\ ClearedSession

\* the refresh cookie of a pair is written and the session token's sign failed
C26_Witness ==
  /\ PairMint
  /\ AssocDone
  /\ Occurred(Ev("signError", "session", FALSE, "N1"))
  /\ Len(resCookies) = 1
  /\ resCookies[1].name = cookieNames.refresh
  /\ nextCalls = <<SignError>>

\* the promise of the revocation lookup is pending
InLookup == pc \in {"refreshSub.member", "refreshSub.values"}

\* C28: every request either reaches the call of next or stays for ever in
\* a lookup that does not settle; so when the lookup settles too, the request
\* reaches next.
C28_EventuallyNext == <>(Len(nextCalls) > 0) \/ <>[]InLookup

\* a request that took the longest path has reached next
C28_Witness ==
  /\ AssocDone
  /\ Len(Events("sign")) = 2
  /\ Len(Events("lookup")) = 1
  /\ nextCalls = <<NoError>>

\* a session cookie is written, or routeAssociateAndRefresh completes without
\* error, in this step
SessionCookieWritten ==
  Len(CookieWrites(cookieNames.session)') > Len(CookieWrites(cookieNames.session))
Completes == nextCalls = <<>> /\ nextCalls' = <<NoError>>

\* C29 as claimed: when a request writes a session cookie, and when it
\* completes with a sub in its context, the cookie's subject and the
\* context's sub are registered in the tracker registry at that moment.
C29_Original ==
  [][/\ SessionCookieWritten =>
          findByTracker(trackerToMember', resCookies'[Len(resCookies')].value.claims.sub) # 0
     /\ (Completes /\ session'.sub # Undefined) =>
          findByTracker(trackerToMember', session'.sub) # 0]_vars

\* C29 amended: the registry is read once per request, when refreshSub is
\* called: the member it goes by is the one the registry held for the
\* credential's tracker at that moment; a found tracker is returned as it
\* is, without another look at the registry, and for one not found a new
\* tracker is registered; every session cookie written later, and the sub of
\* the context at completion, carry the subject the lookup returned,
\* whatever the registry holds by then.
C29_LookupDecides ==
  [][/\ (pc = "start" /\ pc' = "refreshSub.member") =>
          pend'.member = findByTracker(trackerToMember, pend'.prevSub)
     /\ (pc = "refreshSub.member" /\ pc' = "refreshSub.values") =>
          IF pend.member # 0
            THEN /\ pend'.validSub = pend.prevSub
                 /\ UNCHANGED <<trackerToMember, members>>
            ELSE findByTracker(trackerToMember', pend'.validSub) = pend'.member
     /\ SessionCookieWritten =>
          resCookies'[Len(resCookies')].value.claims.sub = Events("validSub")'[1].sub
     /\ (Completes /\ session'.sub # Undefined) =>
          session'.sub = Events("validSub")'[1].sub]_vars

\* a GET completed for tracker A, with a new session cookie for A, after A
\* had been removed
C29_Witness ==
  /\ AssocDone
  /\ req.method = "GET"
  /\ nextCalls = <<NoError>>
  /\ session.sub = "A"
  /\ findByTracker(trackerToMember, "A") = 0
  /\ Len(resCookies) = 1
  /\ resCookies[1].name = cookieNames.session
  /\ resCookies[1].value.claims.sub = "A"

\* the trackers a member lists
TrackersOf(member) == {member.trackers[i] : i \in 1..Len(member.trackers)}

\* the last operation on the registry
LastOp == trace'[Len(trace')]

\* C30: after any sequence of insert, claimTracker and blackListTracker,
\* every key of trackerToMember maps to one existing member, and that member
\* has the key as its handle or lists it among its trackers; after
\* M.claimTracker(t), findByTracker(t) is M, M lists t, and every member
\* that listed t before still lists it.
C30_RegistryKeysOwned ==
  /\ [](\A k \in Keys :
          findByTracker(trackerToMember, k) # 0 =>
            /\ findByTracker(trackerToMember, k) \in 1..Len(members)
            /\ \/ members[findByTracker(trackerToMember, k)].handle = k
               \/ k \in TrackersOf(members[findByTracker(trackerToMember, k)]))
  /\ [][(trace' # trace /\ LastOp.op = "claimTracker") =>
          /\ findByTracker(trackerToMember', LastOp.tracker) = LastOp.member
          /\ LastOp.tracker \in TrackersOf(members'[LastOp.member])
          /\ \A m \in 1..Len(members) :
               LastOp.tracker \in TrackersOf(members[m]) =>
                 LastOp.tracker \in TrackersOf(members'[m])]_vars

\* member 2 has claimed tracker A, which member 1 still lists
C30_Witness ==
  /\ pc = "registry"
  /\ trace # <<>>
  /\ trace[Len(trace)] = [op |-> "claimTracker", member |-> 2, tracker |-> "A"]
  /\ findByTracker(trackerToMember, "A") = 2
  /\ "A" \in TrackersOf(members[1])
  /\ "A" \in TrackersOf(members[2])

\* refreshSub creates a tracker and a member in this step: the lookup found
\* no member for the credential's tracker
CreatesMember ==
  /\ pc = "refreshSub.member"
  /\ pc' = "refreshSub.values"
  /\ pend.member = 0

\* C31 as claimed: when refreshSub creates a tracker and a member for a new
\* user agent, every tracker and handle that was registered before still
\* resolves to the member it resolved to, and the new tracker was not a key
\* of the registry.
C31_Original ==
  [][CreatesMember =>
       /\ \A k \in Keys :
            findByTracker(trackerToMember, k) # 0 =>
              findByTracker(trackerToMember', k) = findByTracker(trackerToMember, k)
       /\ findByTracker(trackerToMember, pend'.validSub) = 0]_vars

====
